---- MODULE Spec2Model ----
(***************************************************************************)
(* Model of volli60/mongo_gen: the generic helpers of package mongoDB      *)
(* (src/mongoDB/mongo.go) called against a document-database service, and  *)
(* the example program (src/example/example.go).                           *)
(*                                                                         *)
(* The collection held by the service is the state the helpers act on.     *)
(* Every helper is one driver call inside a context with a fixed deadline; *)
(* the parameter `within` of an action says whether the service answered   *)
(* inside that deadline.                                                   *)
(***************************************************************************)
EXTENDS Integers, Sequences, FiniteSets, TLC

VARIABLES
    coll,       \* the documents stored in the collection (service side)
    lastOid,    \* the newest ObjectID handed out so far
    last,       \* the helper call that returned last, with what it returned
    saved,      \* the SaveOne that succeeded as the call right before, if any
    pend,       \* per client: the UpdateOne request in flight, if any
    lastUpd,    \* per identifier: the document of the update applied last
    pc,         \* example program: position in main ("none": no main runs)
    sessions,   \* client sessions that are connected (not disconnected)
    handles,    \* handles returned by NewMongoHandler and not yet closed
    closes,     \* number of calls of Close
    user        \* example program: the identifier SaveOne reported

vars == <<coll, lastOid, last, saved, pend, lastUpd,
          pc, sessions, handles, closes, user>>

----------------------------------------------------------------------------
\* Bounds of the model.

\* Largest ObjectID used by the helper specifications.
MaxOid == 3
\* Largest limit passed to Find.
MaxLimit == 2
\* Longest time one step of NewMongoHandler may take (in the units of Timeout).
MaxDelay == 11
\* Number of sessions the caller of NewMongoHandler opens at most.
MaxSessions == 2

----------------------------------------------------------------------------
\* Values.

\* primitive.ObjectID's zero value: the ID of a User that was given none.
NilObjectID == 0

\* The 10 of context.WithTimeout(context.Background(), 10*time.Second).
Timeout == 10

\* The limit the example program passes to Find.
ExampleLimit == 10

\* Names in the order BSON compares strings (byte-wise).
NameOrder ==
    <<"Alice", "Bob", "Carol", "Dave", "Eve", "Frank", "Grace", "Heidi",
      "Ivan", "Jack", "John Doe", "Zoe">>

AllNames == {NameOrder[i] : i \in 1..Len(NameOrder)}

NameRank(n) == CHOOSE i \in 1..Len(NameOrder) : NameOrder[i] = n

\* Names the helper specifications draw from.
Names == {"Alice", "John Doe"}

Oids == 1..MaxOid

\* type User struct { ID primitive.ObjectID `bson:"_id,omitempty"`; Name string `bson:"name"` }
User(id, name) == [ID |-> id, Name |-> name]

Users == {User(i, n) : i \in {NilObjectID} \cup Oids, n \in Names}

\* func (u User) GetID() primitive.ObjectID
GetID(u) == u.ID

\* Marshal with the omitempty of the ID's tag left out: a zero ID is encoded too.
MarshalNoOmit(u) == [_id |-> u.ID, name |-> u.Name]

\* BSON encoding of a User under its struct tags: a zero ID is omitted.
Marshal(u) ==
    IF u.ID = NilObjectID
    THEN [name |-> u.Name]
    ELSE [_id |-> u.ID, name |-> u.Name]

\* Unmarshal with the ID's tag naming another key: _id is never decoded.
UnmarshalNoID(d) ==
    [ID   |-> NilObjectID,
     Name |-> IF "name" \in DOMAIN d THEN d.name ELSE ""]

\* Decode(&result): BSON document to User; a missing field keeps the zero value.
Unmarshal(d) ==
    [ID   |-> IF "_id" \in DOMAIN d THEN d._id ELSE NilObjectID,
     Name |-> IF "name" \in DOMAIN d THEN d.name ELSE ""]

\* A stored document.
Stored(id, name) == [_id |-> id, name |-> name]

Ids(c) == {d._id : d \in c}

\* bson.D values: sequences of <<key, value>>.
NameFilter(n) == << <<"name", n>> >>
Filters == {<<>>} \cup {NameFilter(n) : n \in Names}
FindFilters == {<<>>, NameFilter("John Doe")}

SortModels ==
    { << <<"name", 1>> >>,
      << <<"name", -1>>, <<"_id", 1>> >> }

Skips == {0, 1}
Limits == -1..MaxLimit

----------------------------------------------------------------------------
\* The service's answer to each driver call, as the helpers issue it.

Max(a, b) == IF a >= b THEN a ELSE b
Min(a, b) == IF a <= b THEN a ELSE b
Abs(a) == IF a < 0 THEN 0 - a ELSE a

\* A query filter matches a document that has every listed key with that value.
Matches(d, filter) ==
    \A i \in 1..Len(filter) :
        /\ filter[i][1] \in DOMAIN d
        /\ d[filter[i][1]] = filter[i][2]

Matching(c, filter) == {d \in c : Matches(d, filter)}

\* Value of a sort key as the service compares it.
KeyRank(d, key) == IF key = "name" THEN NameRank(d[key]) ELSE d[key]

\* a sorts strictly before b under sortModel (keys in order, 1 ascending, -1 descending).
RECURSIVE Before(_, _, _)
Before(a, b, sortModel) ==
    IF sortModel = <<>> THEN FALSE
    ELSE LET key == Head(sortModel)[1]
             dir == Head(sortModel)[2]
             ra  == KeyRank(a, key)
             rb  == KeyRank(b, key)
         IN  IF ra = rb THEN Before(a, b, Tail(sortModel))
             ELSE IF dir = 1 THEN ra < rb ELSE ra > rb

\* The orders in which the service may return the documents of c under
\* sortModel: documents that compare equal come in any order.
RECURSIVE Orderings(_, _)
Orderings(c, sortModel) ==
    IF c = {} THEN {<<>>}
    ELSE UNION { { <<m>> \o t : t \in Orderings(c \ {m}, sortModel) } :
                 m \in {x \in c : \A y \in c : ~Before(y, x, sortModel)} }

\* Window that returns one document more than the limit.
WindowOffByOne(s, skip, limit) ==
    LET n    == Len(s)
        from == IF skip <= n THEN skip ELSE n
        rest == n - from
        cnt  == IF limit = 0 \/ rest <= (IF limit < 0 THEN 0 - limit ELSE limit)
                THEN rest
                ELSE (IF limit < 0 THEN 0 - limit ELSE limit) + 1
    IN  SubSeq(s, from + 1, from + cnt)

\* SetSkip(skip).SetLimit(limit) applied to an ordered result: limit 0 is no
\* limit, a negative limit is its absolute value (returned as a single batch).
Window(s, skip, limit) ==
    LET n    == Len(s)
        from == Min(skip, n)
        cnt  == IF limit = 0 THEN n - from ELSE Min(Abs(limit), n - from)
    IN  SubSeq(s, from + 1, from + cnt)

\* cursor.All(ctx, &results): every returned document decoded into T.
DecodeAll(s) == [i \in 1..Len(s) |-> Unmarshal(s[i])]

\* collection.InsertOne(ctx, doc): the driver adds a fresh _id to a document
\* that has none; the service rejects an _id that is already stored.
InsertOne(c, lo, doc) ==
    LET D   == Marshal(doc)
        id  == IF "_id" \in DOMAIN D THEN D._id ELSE lo + 1
    IN  IF id \in Ids(c)
        THEN [err |-> "DuplicateKey", coll |-> c, lastOid |-> Max(lo, id),
              insertedID |-> NilObjectID]
        ELSE [err |-> "nil", coll |-> c \cup {Stored(id, D.name)},
              lastOid |-> Max(lo, id), insertedID |-> id]

\* SetFields that keeps a field the stored document already has.
SetFieldsKeep(d, D) == d

\* {$set: D} applied to stored document d: the fields of D replace d's.
SetFields(d, D) ==
    [_id  |-> IF "_id" \in DOMAIN D THEN D._id ELSE d._id,
     name |-> IF "name" \in DOMAIN D THEN D.name ELSE d.name]

\* UpdateOneSvc with SetUpsert(true): no match inserts the document.
UpdateOneUpsert(c, id, doc) ==
    LET hit == {d \in c : d._id = id}
    IN  IF hit = {}
        THEN [err |-> "nil", coll |-> c \cup {Stored(id, doc.Name)}, matched |-> 0,
              modified |-> 0, upserted |-> 1]
        ELSE LET d == CHOOSE x \in hit : TRUE
                 n == [_id |-> d._id, name |-> doc.Name]
             IN  [err |-> "nil", coll |-> (c \ {d}) \cup {n}, matched |-> 1,
                  modified |-> IF n = d THEN 0 ELSE 1, upserted |-> 0]

\* collection.UpdateOne(ctx, {_id: id}, {$set: doc}), no upsert option.
UpdateOneSvc(c, id, doc) ==
    LET hit == {d \in c : d._id = id}
    IN  IF hit = {}
        THEN [err |-> "nil", coll |-> c, matched |-> 0, modified |-> 0, upserted |-> 0]
        ELSE LET d == CHOOSE x \in hit : TRUE
                 n == SetFields(d, Marshal(doc))
             IN  [err |-> "nil", coll |-> (c \ {d}) \cup {n}, matched |-> 1,
                  modified |-> IF n = d THEN 0 ELSE 1, upserted |-> 0]

\* DeleteOneSvc with an empty filter: the first document found is deleted.
DeleteOneAny(c, id) ==
    LET hit == IF c = {} THEN {} ELSE {CHOOSE d \in c : TRUE}
    IN  [err |-> "nil", coll |-> c \ hit, deleted |-> Cardinality(hit)]

\* collection.DeleteOne(ctx, {_id: id}, hint {_id: 1}).
DeleteOneSvc(c, id) ==
    LET hit == {d \in c : d._id = id}
    IN  [err |-> "nil", coll |-> c \ hit, deleted |-> Cardinality(hit)]

----------------------------------------------------------------------------
\* The helpers of package mongoDB: the set of outcomes of one call on
\* collection c.  within = FALSE: the 10 s deadline of the call's context
\* passed before the service answered; a write may or may not have arrived.

SaveOne(c, lo, doc, within) ==
    LET r == InsertOne(c, lo, doc)
    IN  IF within THEN {r}
        ELSE { [err |-> "DeadlineExceeded", coll |-> x, lastOid |-> r.lastOid,
                insertedID |-> NilObjectID] : x \in {c, r.coll} }

UpdateOne(c, doc, within) ==
    LET r == UpdateOneSvc(c, GetID(doc), doc)
    IN  IF within THEN {r}
        ELSE { [err |-> "DeadlineExceeded", coll |-> x, matched |-> 0,
                modified |-> 0, upserted |-> 0] : x \in {c, r.coll} }

DeleteOne(c, id, within) ==
    LET r == DeleteOneSvc(c, id)
    IN  IF within THEN {r}
        ELSE { [err |-> "DeadlineExceeded", coll |-> x, deleted |-> 0] :
               x \in {c, r.coll} }

\* FindOne that does not test the error of Decode: &result is returned as is.
FindOneIgnoreErr(c, filter, within) ==
    IF ~within \/ {d \in c : Matches(d, filter)} = {}
    THEN {[err |-> "nil", found |-> <<User(NilObjectID, "")>>]}
    ELSE {[err |-> "nil", found |-> <<Unmarshal(d)>>] : d \in {x \in c : Matches(x, filter)}}

\* A *T: <<>> is nil, <<v>> points to v.
FindOne(c, filter, within) ==
    IF ~within THEN {[err |-> "DeadlineExceeded", found |-> <<>>]}
    ELSE IF Matching(c, filter) = {}
    THEN {[err |-> "ErrNoDocuments", found |-> <<>>]}
    ELSE {[err |-> "nil", found |-> <<Unmarshal(d)>>] : d \in Matching(c, filter)}

\* A *[]T: <<>> is nil, <<s>> points to the slice s.
Find(c, sortModel, filter, skip, limit, within) ==
    IF ~within THEN {[err |-> "DeadlineExceeded", results |-> <<>>]}
    ELSE {[err |-> "nil", results |-> <<DecodeAll(Window(s, skip, limit))>>] :
          s \in Orderings(Matching(c, filter), sortModel)}

----------------------------------------------------------------------------
\* Calls of the helpers by a client of the package.

Clients == {"c1", "c2"}

\* No call has returned yet; also the zero values of a call's record.
NoCall ==
    [op |-> "none", doc |-> User(NilObjectID, ""), filter |-> <<>>,
     sortModel |-> <<>>, skip |-> 0, limit |-> 0, id |-> NilObjectID,
     err |-> "nil", insertedID |-> NilObjectID, matched |-> 0, modified |-> 0,
     upserted |-> 0, deleted |-> 0, found |-> <<>>, results |-> <<>>,
     pre |-> {}, after |-> <<>>,
     handle |-> FALSE, elapsed |-> 0,
     connectOk |-> FALSE, connectTime |-> 0, pingOk |-> FALSE, pingTime |-> 0]

\* The variables the helper calls leave alone.
HelperIdle ==
    /\ pend = [c \in Clients |-> <<>>]
    /\ lastUpd = [i \in Oids |-> <<>>]
    /\ pc = "none" /\ sessions = 0 /\ handles = 0
    /\ closes = 0 /\ user = <<>>

Init ==
    /\ coll = {}
    /\ lastOid = 0
    /\ last = NoCall
    /\ saved = <<>>
    /\ HelperIdle

CallSaveOne(doc, within) ==
    \E o \in SaveOne(coll, lastOid, doc, within) :
        /\ o.lastOid <= MaxOid
        /\ coll' = o.coll
        /\ lastOid' = o.lastOid
        /\ last' = [NoCall EXCEPT !.op = "SaveOne", !.doc = doc, !.err = o.err,
                                  !.insertedID = o.insertedID, !.pre = coll]
        /\ saved' = IF o.err = "nil"
                    THEN <<[doc |-> doc, insertedID |-> o.insertedID]>>
                    ELSE <<>>
        /\ UNCHANGED <<pend, lastUpd, pc, sessions, handles, closes, user>>

CallUpdateOne(doc, within) ==
    \E o \in UpdateOne(coll, doc, within) :
        /\ coll' = o.coll
        /\ last' = [NoCall EXCEPT !.op = "UpdateOne", !.doc = doc, !.err = o.err,
                                  !.matched = o.matched, !.modified = o.modified,
                                  !.upserted = o.upserted, !.pre = coll]
        /\ saved' = <<>>
        /\ UNCHANGED <<lastOid, pend, lastUpd, pc, sessions, handles, closes, user>>

CallDeleteOne(id, within) ==
    \E o \in DeleteOne(coll, id, within) :
        /\ coll' = o.coll
        /\ last' = [NoCall EXCEPT !.op = "DeleteOne", !.id = id, !.err = o.err,
                                  !.deleted = o.deleted, !.pre = coll]
        /\ saved' = <<>>
        /\ UNCHANGED <<lastOid, pend, lastUpd, pc, sessions, handles, closes, user>>

CallFindOne(filter, within) ==
    \E o \in FindOne(coll, filter, within) :
        /\ last' = [NoCall EXCEPT !.op = "FindOne", !.filter = filter, !.err = o.err,
                                  !.found = o.found, !.pre = coll, !.after = saved]
        /\ saved' = <<>>
        /\ UNCHANGED <<coll, lastOid, pend, lastUpd, pc, sessions, handles,
                       closes, user>>

CallFind(sortModel, filter, skip, limit, within) ==
    \E o \in Find(coll, sortModel, filter, skip, limit, within) :
        /\ last' = [NoCall EXCEPT !.op = "Find", !.sortModel = sortModel,
                                  !.filter = filter, !.skip = skip, !.limit = limit,
                                  !.err = o.err, !.results = o.results, !.pre = coll]
        /\ saved' = <<>>
        /\ UNCHANGED <<coll, lastOid, pend, lastUpd, pc, sessions, handles,
                       closes, user>>

Helpers(within) ==
    \/ \E doc \in Users : CallSaveOne(doc, within)
    \/ \E doc \in Users : CallUpdateOne(doc, within)
    \/ \E id \in {NilObjectID} \cup Oids : CallDeleteOne(id, within)
    \/ \E filter \in Filters : CallFindOne(filter, within)
    \/ \E sortModel \in SortModels, filter \in FindFilters, skip \in Skips, limit \in Limits :
           CallFind(sortModel, filter, skip, limit, within)

\* The service answers every call inside the call's deadline.
Next == Helpers(TRUE)

Spec == Init /\ [][Next]_vars

\* The service may fail to answer a call inside the call's deadline.
NextFault ==
    \E within \in BOOLEAN :
        \/ \E doc \in Users : CallSaveOne(doc, within)
        \/ \E doc \in Users : CallUpdateOne(doc, within)
        \/ \E id \in {NilObjectID} \cup Oids : CallDeleteOne(id, within)
        \/ \E filter \in Filters : CallFindOne(filter, within)

SpecFault == Init /\ [][NextFault]_vars

----------------------------------------------------------------------------
\* Connection handles.

\* NewMongoHandler with a context of its own for Ping.
NewMongoHandlerTwoDeadlines(connectOk, connectTime, pingOk, pingTime) ==
    LET connectErr == IF connectTime >= Timeout THEN "DeadlineExceeded"
                      ELSE IF connectOk THEN "nil" ELSE "ConnectError"
        connectEnd == IF connectTime <= Timeout THEN connectTime ELSE Timeout
        pingErr    == IF pingTime >= Timeout THEN "DeadlineExceeded"
                      ELSE IF pingOk THEN "nil" ELSE "PingError"
        pingEnd    == connectEnd + (IF pingTime <= Timeout THEN pingTime ELSE Timeout)
    IN  IF connectErr # "nil"
        THEN [handle |-> FALSE, err |-> connectErr, elapsed |-> connectEnd,
              sessions |-> 0]
        ELSE IF pingErr # "nil"
        THEN [handle |-> FALSE, err |-> pingErr, elapsed |-> pingEnd,
              sessions |-> 1]
        ELSE [handle |-> TRUE, err |-> "nil", elapsed |-> pingEnd, sessions |-> 1]

\* NewMongoHandler(dbName, url): mongo.Connect, then client.Ping, under one
\* context of Timeout units.  connectOk/pingOk: whether the step would succeed
\* given time; connectTime/pingTime: how long the step takes.  A step that has
\* not ended when the context's deadline passes returns the context's error
\* at the deadline.  sessions: the connected clients the call leaves behind.
NewMongoHandler(connectOk, connectTime, pingOk, pingTime) ==
    LET connectErr == IF connectTime >= Timeout THEN "DeadlineExceeded"
                      ELSE IF connectOk THEN "nil" ELSE "ConnectError"
        connectEnd == Min(connectTime, Timeout)
        pingErr    == IF connectEnd + pingTime >= Timeout THEN "DeadlineExceeded"
                      ELSE IF pingOk THEN "nil" ELSE "PingError"
        pingEnd    == Min(connectEnd + pingTime, Timeout)
    IN  IF connectErr # "nil"
        THEN [handle |-> FALSE, err |-> connectErr, elapsed |-> connectEnd,
              sessions |-> 0]
        ELSE IF pingErr # "nil"
        THEN [handle |-> FALSE, err |-> pingErr, elapsed |-> pingEnd,
              sessions |-> 1]
        ELSE [handle |-> TRUE, err |-> "nil", elapsed |-> pingEnd, sessions |-> 1]

\* (h *MongoHandler) Close(): h.DB.Client().Disconnect(ctx).  The outcomes for
\* a client with n connected sessions.
Close(n, within) ==
    IF within THEN {[err |-> "nil", sessions |-> n - 1]}
    ELSE {[err |-> "DeadlineExceeded", sessions |-> x] : x \in {n, n - 1}}

Delays == 0..MaxDelay

CallNewMongoHandler(connectOk, connectTime, pingOk, pingTime) ==
    LET r == NewMongoHandler(connectOk, connectTime, pingOk, pingTime)
    IN  /\ sessions + closes < MaxSessions
        /\ sessions' = sessions + r.sessions
        /\ handles' = IF r.handle THEN handles + 1 ELSE handles
        /\ last' = [NoCall EXCEPT !.op = "NewMongoHandler", !.err = r.err,
                                  !.handle = r.handle, !.elapsed = r.elapsed,
                                  !.connectOk = connectOk, !.connectTime = connectTime,
                                  !.pingOk = pingOk, !.pingTime = pingTime]
        /\ UNCHANGED <<coll, lastOid, saved, pend, lastUpd, pc, closes, user>>

CallClose(within) ==
    /\ handles > 0
    /\ \E o \in Close(sessions, within) :
           /\ sessions' = o.sessions
           /\ last' = [NoCall EXCEPT !.op = "Close", !.err = o.err]
    /\ handles' = handles - 1
    /\ closes' = closes + 1
    /\ UNCHANGED <<coll, lastOid, saved, pend, lastUpd, pc, user>>

\* A caller that opens handles and closes them.
NextConnect ==
    \/ \E connectOk \in BOOLEAN, connectTime \in Delays,
          pingOk \in BOOLEAN, pingTime \in Delays :
           CallNewMongoHandler(connectOk, connectTime, pingOk, pingTime)
    \/ \E within \in BOOLEAN : CallClose(within)

SpecConnect == Init /\ [][NextConnect]_vars

----------------------------------------------------------------------------
\* Concurrent UpdateOne calls: each client has at most one call in flight; the
\* service applies the requests that reached it one at a time, in any order.

\* Every content of the collection over the identifiers Oids.
Contents ==
    {c \in SUBSET {Stored(i, n) : i \in Oids, n \in Names} :
        \A d, e \in c : d._id = e._id => d = e}

InitConc ==
    /\ coll \in Contents
    /\ lastOid = MaxOid
    /\ last = NoCall
    /\ saved = <<>>
    /\ HelperIdle

\* Client cl calls UpdateOne(db, collectionName, doc): the request is on its way.
IssueUpdateOne(cl, doc) ==
    /\ pend[cl] = <<>>
    /\ pend' = [pend EXCEPT ![cl] = <<doc>>]
    /\ UNCHANGED <<coll, lastOid, last, saved, lastUpd, pc, sessions, handles,
                   closes, user>>

\* The service applies cl's request and cl's call returns.
ServeUpdateOne(cl) ==
    /\ pend[cl] # <<>>
    /\ LET doc == pend[cl][1]
       IN  \E o \in UpdateOne(coll, doc, TRUE) :
               /\ coll' = o.coll
               /\ last' = [NoCall EXCEPT !.op = "UpdateOne", !.doc = doc,
                                         !.err = o.err, !.matched = o.matched,
                                         !.modified = o.modified,
                                         !.upserted = o.upserted, !.pre = coll]
               /\ lastUpd' = IF o.matched = 1
                             THEN [lastUpd EXCEPT ![GetID(doc)] = <<doc>>]
                             ELSE lastUpd
    /\ pend' = [pend EXCEPT ![cl] = <<>>]
    /\ UNCHANGED <<lastOid, saved, pc, sessions, handles, closes, user>>

NextConc ==
    \/ \E cl \in Clients, doc \in Users : IssueUpdateOne(cl, doc)
    \/ \E cl \in Clients : ServeUpdateOne(cl)

SpecConc == InitConc /\ [][NextConc]_vars

----------------------------------------------------------------------------
\* The example program, func main of src/example/example.go.

JohnDoe == "John Doe"

\* The collection "users" before the program runs: one document for each
\* name of a set of names, with identifiers handed out earlier.
Prior(S) ==
    {Stored(Cardinality({m \in S : NameRank(m) <= NameRank(n)}), n) : n \in S}

InitExample ==
    /\ \E S \in SUBSET AllNames :
           /\ coll = Prior(S)
           /\ lastOid = Cardinality(S)
    /\ last = NoCall
    /\ saved = <<>>
    /\ pend = [c \in Clients |-> <<>>]
    /\ lastUpd = [i \in Oids |-> <<>>]
    /\ pc = "start" /\ sessions = 0 /\ handles = 0 /\ closes = 0 /\ user = <<>>

\* handler, err := mongoDB.NewMongoHandler(...); if err != nil { log.Fatal(err) }
\* defer handler.Close()
ExNewMongoHandler(connectOk, connectTime, pingOk, pingTime) ==
    LET r == NewMongoHandler(connectOk, connectTime, pingOk, pingTime)
    IN  /\ pc = "start"
        /\ sessions' = sessions + r.sessions
        /\ handles' = IF r.handle THEN handles + 1 ELSE handles
        /\ last' = [NoCall EXCEPT !.op = "NewMongoHandler", !.err = r.err,
                                  !.handle = r.handle, !.elapsed = r.elapsed,
                                  !.connectOk = connectOk, !.connectTime = connectTime,
                                  !.pingOk = pingOk, !.pingTime = pingTime]
        /\ pc' = IF r.err # "nil" THEN "fatal" ELSE "save"
        /\ UNCHANGED <<coll, lastOid, saved, pend, lastUpd, closes, user>>

\* user := User{Name: "John Doe"}; result, err := mongoDB.SaveOne(...)
ExSaveOne(within) ==
    /\ pc = "save"
    /\ \E o \in SaveOne(coll, lastOid, User(NilObjectID, JohnDoe), within) :
           /\ coll' = o.coll
           /\ lastOid' = o.lastOid
           /\ last' = [NoCall EXCEPT !.op = "SaveOne",
                                     !.doc = User(NilObjectID, JohnDoe),
                                     !.err = o.err, !.insertedID = o.insertedID,
                                     !.pre = coll]
           /\ user' = IF o.err = "nil" THEN <<o.insertedID>> ELSE user
           /\ pc' = IF o.err # "nil" THEN "fatal" ELSE "findone"
    /\ UNCHANGED <<saved, pend, lastUpd, sessions, handles, closes>>

\* filter := bson.D{{"name", "John Doe"}}; foundUser, err := mongoDB.FindOne[User](...)
ExFindOne(within) ==
    /\ pc = "findone"
    /\ \E o \in FindOne(coll, NameFilter(JohnDoe), within) :
           /\ last' = [NoCall EXCEPT !.op = "FindOne",
                                     !.filter = NameFilter(JohnDoe),
                                     !.err = o.err, !.found = o.found, !.pre = coll]
           /\ pc' = IF o.err # "nil" THEN "fatal" ELSE "find"
    /\ UNCHANGED <<coll, lastOid, saved, pend, lastUpd, sessions, handles, closes,
                   user>>

\* sortModel := bson.D{{"name", 1}}; users, err := mongoDB.Find[User](..., bson.D{}, 0, 10)
ExFind(within) ==
    /\ pc = "find"
    /\ \E o \in Find(coll, << <<"name", 1>> >>, <<>>, 0, ExampleLimit, within) :
           /\ last' = [NoCall EXCEPT !.op = "Find",
                                     !.sortModel = << <<"name", 1>> >>,
                                     !.limit = ExampleLimit,
                                     !.err = o.err, !.results = o.results,
                                     !.pre = coll]
           /\ pc' = IF o.err # "nil" THEN "fatal" ELSE "return"
    /\ UNCHANGED <<coll, lastOid, saved, pend, lastUpd, sessions, handles, closes,
                   user>>

\* main returns: the deferred handler.Close() runs, then the process ends.
ExReturn(within) ==
    /\ pc = "return"
    /\ \E o \in Close(sessions, within) : sessions' = o.sessions
    /\ handles' = handles - 1
    /\ closes' = closes + 1
    /\ pc' = "exited"
    /\ UNCHANGED <<coll, lastOid, last, saved, pend, lastUpd, user>>

\* log.Fatal(err): prints and calls os.Exit(1); deferred calls do not run.
ExLogFatal ==
    /\ pc = "fatal"
    /\ pc' = "exited"
    /\ UNCHANGED <<coll, lastOid, last, saved, pend, lastUpd, sessions, handles,
                   closes, user>>

NextExample ==
    \/ \E connectOk \in BOOLEAN, connectTime \in {0, Timeout},
          pingOk \in BOOLEAN, pingTime \in {0, Timeout} :
           ExNewMongoHandler(connectOk, connectTime, pingOk, pingTime)
    \/ \E within \in BOOLEAN : ExSaveOne(within)
    \/ \E within \in BOOLEAN : ExFindOne(within)
    \/ \E within \in BOOLEAN : ExFind(within)
    \/ \E within \in BOOLEAN : ExReturn(within)
    \/ ExLogFatal

SpecExample == InitExample /\ [][NextExample]_vars

----------------------------------------------------------------------------
\* Properties.

Range(s) == {s[i] : i \in 1..Len(s)}

\* FindOne was called right after a SaveOne(d) that succeeded, with the
\* filter {name: d.Name}.
RoundTrip ==
    /\ last.op = "FindOne"
    /\ last.after # <<>>
    /\ last.filter = NameFilter(last.after[1].doc.Name)

\* C1 as stated: SaveOne(d) that succeeds followed by FindOne with a filter
\* on d's name returns, without error, a document equal to d, whatever the
\* collection held.
C1_RoundTripEqual ==
    RoundTrip => /\ last.err = "nil"
                 /\ last.found = <<last.after[1].doc>>

\* C1 amended: the FindOne returns, without error, a stored document that has
\* d's name and a non-zero identifier; when no other stored document has d's
\* name it is d with its identifier set to the InsertedID SaveOne reported,
\* which is d's own identifier when d had one.
C1_RoundTripStored ==
    RoundTrip =>
        LET d  == last.after[1].doc
            id == last.after[1].insertedID
        IN  /\ last.err = "nil"
            /\ Len(last.found) = 1
            /\ last.found[1].Name = d.Name
            /\ last.found[1].ID # NilObjectID
            /\ Stored(last.found[1].ID, last.found[1].Name) \in coll
            /\ id # NilObjectID
            /\ GetID(d) # NilObjectID => id = GetID(d)
            /\ Cardinality({x \in coll : x.name = d.Name}) = 1
                   => last.found[1] = User(id, d.Name)

\* A round trip of a document saved without identifier.
C1_Witness ==
    /\ RoundTrip
    /\ GetID(last.after[1].doc) = NilObjectID
    /\ Cardinality({x \in coll : x.name = last.after[1].doc.Name}) = 1
    /\ Cardinality(coll) >= 2

\* C2: UpdateOne with a document whose identifier is not in the collection
\* returns no error, reports zero matched and zero modified, and leaves the
\* collection as it was: nothing is created, nothing is altered.
C2_UpdateAbsentIsNoOp ==
    (last.op = "UpdateOne" /\ GetID(last.doc) \notin Ids(last.pre)) =>
        /\ last.err = "nil"
        /\ last.matched = 0
        /\ last.modified = 0
        /\ last.upserted = 0
        /\ coll = last.pre

\* An update with a non-zero identifier that a non-empty collection lacks.
C2_Witness ==
    /\ last.op = "UpdateOne"
    /\ GetID(last.doc) # NilObjectID
    /\ GetID(last.doc) \notin Ids(last.pre)
    /\ last.pre # {}

\* Find returned the slice r: every document of r is stored and matches the
\* filter, none comes twice, and r is ordered by sortModel.
FindSound(r) ==
    /\ \A i \in 1..Len(r) : Marshal(r[i]) \in Matching(last.pre, last.filter)
    /\ \A i, j \in 1..Len(r) : i < j => r[i] # r[j]
    /\ \A i, j \in 1..Len(r) :
           i < j => ~Before(Marshal(r[j]), Marshal(r[i]), last.sortModel)

C4_DeleteById ==
    last.op = "DeleteOne" =>
        /\ last.err = "nil"
        /\ last.id \notin Ids(last.pre) => (last.deleted = 0 /\ coll = last.pre)
        /\ last.id \in Ids(last.pre) =>
               /\ last.deleted = 1
               /\ coll = {d \in last.pre : d._id # last.id}
               /\ Cardinality(coll) = Cardinality(last.pre) - 1

\* A DeleteOne of an identifier that a collection of two documents lacks.
C4_Witness ==
    /\ last.op = "DeleteOne"
    /\ last.id \notin Ids(last.pre)
    /\ last.id # NilObjectID
    /\ Cardinality(last.pre) >= 2
    /\ last.deleted = 0

\* C6: a FindOne whose filter matches no document returns a nil document and
\* an error, as every failed FindOne does (never a zero document with a nil
\* error); a FindOne that returns a nil error returns a document that is
\* stored in the collection and matches the filter.
C6_FindOneNotFound ==
    last.op = "FindOne" =>
        /\ Matching(last.pre, last.filter) = {} => last.err # "nil"
        /\ last.err # "nil" => last.found = <<>>
        /\ last.err = "nil" =>
               /\ Len(last.found) = 1
               /\ Marshal(last.found[1]) \in Matching(last.pre, last.filter)

\* A FindOne on a non-empty collection that holds no match.
C6_Witness ==
    /\ last.op = "FindOne"
    /\ last.pre # {}
    /\ Matching(last.pre, last.filter) = {}
    /\ last.err = "ErrNoDocuments"
    /\ last.found = <<>>

\* C5: NewMongoHandler returns a handle and a nil error exactly when the
\* connect step and the ping step both succeed inside the one deadline of
\* Timeout units they share; otherwise it returns no handle and an error; it
\* never returns later than the deadline.
C5_HandleIffBothSteps ==
    last.op = "NewMongoHandler" =>
        LET both == /\ last.connectOk
                    /\ last.pingOk
                    /\ last.connectTime + last.pingTime < Timeout
        IN  /\ last.handle <=> both
            /\ last.handle <=> last.err = "nil"
            /\ last.elapsed <= Timeout
            /\ (last.handle /\ pc = "none") => handles > 0

\* Both steps would succeed, each inside Timeout, but not both inside it.
C5_Witness ==
    /\ last.op = "NewMongoHandler"
    /\ last.connectOk /\ last.pingOk
    /\ last.connectTime < Timeout /\ last.pingTime < Timeout
    /\ last.connectTime + last.pingTime >= Timeout
    /\ ~last.handle
    /\ last.err = "DeadlineExceeded"
    /\ last.elapsed = Timeout

\* C7: in the example program, when NewMongoHandler returned a handle, the
\* handle has been closed exactly once when the process ends, whichever of the
\* SaveOne, FindOne and Find steps failed, and nothing is called on the
\* handle after Close.
C7_ClosedExactlyOnce ==
    /\ (pc = "exited" /\ handles + closes > 0) => (closes = 1 /\ handles = 0)
    /\ closes > 0 => pc = "exited"

\* The document the example program inserted, as Find decodes it.
Inserted == User(user[1], JohnDoe)

\* The stored documents that sort at or before, and strictly before, the
\* name "John Doe" under {name: 1}.
AtOrBefore == {d \in coll : NameRank(d.name) <= NameRank(JohnDoe)}
StrictlyBefore == {d \in coll : NameRank(d.name) < NameRank(JohnDoe)}

\* FindOne of the example returned a document named "John Doe" that has a
\* non-zero identifier.
FoundJohnDoe ==
    /\ last.op = "FindOne" /\ last.err = "nil"
    /\ Len(last.found) = 1
    /\ last.found[1].Name = JohnDoe
    /\ last.found[1].ID # NilObjectID

\* C8 as stated: after SaveOne of User{Name: "John Doe"}, FindOne returns a
\* document with that name and a non-zero identifier, and Find with sort
\* {name: 1}, no filter, skip 0, limit 10 returns a sequence that includes the
\* inserted document, whatever the collection held before.
C8_ExampleScenario ==
    /\ pc = "find" => FoundJohnDoe
    /\ pc = "return" => Inserted \in Range(last.results[1])

\* C8 amended: the sequence includes the inserted document whenever at most
\* 10 stored documents (the inserted one among them) have a name that sorts at
\* or before "John Doe"; when 10 or more sort strictly before it, the
\* sequence holds 10 documents and the inserted one is not among them.
C8_ExampleWithinLimit ==
    /\ pc = "find" => (FoundJohnDoe /\ user # <<>> /\ user[1] # NilObjectID)
    /\ pc = "return" =>
           /\ Stored(user[1], JohnDoe) \in coll
           /\ Cardinality(AtOrBefore) <= ExampleLimit
                  => Inserted \in Range(last.results[1])
           /\ Cardinality(StrictlyBefore) >= ExampleLimit
                  => /\ Inserted \notin Range(last.results[1])
                     /\ Len(last.results[1]) = ExampleLimit

\* More than 10 documents are stored and Find still returns the inserted one.
C8_Witness ==
    /\ pc = "return"
    /\ Cardinality(coll) > ExampleLimit
    /\ Cardinality(AtOrBefore) = ExampleLimit
    /\ Inserted \in Range(last.results[1])

C10_NoSessionLeak == sessions = handles

====
